---- MODULE Spec2Model ----
(***************************************************************************)
(* Model of main.py of the vgrain repository: the hyperparameter search    *)
(* driver (objective + optuna GridSampler study) and the final / fixed     *)
(* train-then-evaluate run.                                                *)
(*                                                                         *)
(* Units: learning rates are integers in units of 1e-4 (0.001 = 10,        *)
(* 0.0001 = 1, 0.005 = 50, 0.0005 = 5); dropout and k_fraction are         *)
(* integers in percent (0.2 = 20, 0.1 = 10).                               *)
(***************************************************************************)
EXTENDS Integers, Sequences, FiniteSets, Bags, TLC

VARIABLES config, pc, stop_flag, trials, best_params, frame,
          run_info, epoch_info, models_created, calls, pipeline_calls

vars == <<config, pc, stop_flag, trials, best_params, frame,
          run_info, epoch_info, models_created, calls, pipeline_calls>>

----------------------------------------------------------------------------
(* Bounds of the model *)

\* how many leading values of the num_neurons list the model admits
MaxChoices == 2
\* NUM_EPOCHS is drawn from 1..MaxEpochs
MaxEpochs == 2
\* number of genes (nodes of the adjacency matrices)
NumNodes == 2

----------------------------------------------------------------------------
(* Program constants *)

n_trials == 256
DefaultDropout == 20
DefaultKFraction == 10

Unbound == <<>>
Bound(v) == <<v>>
Val(o) == o[1]

Min(a, b) == IF a < b THEN a ELSE b
Admit(list, k) == SubSeq(list, 1, Min(k, Len(list)))
Range(s) == {s[i] : i \in 1..Len(s)}

\* The model explores the leading MaxChoices values of num_neurons, the
\* first value of embedding_size and of num_heads, and every learning rate;
\* a list is cut the same way where objective() declares it and where
\* search_space lists it.

\* the choices objective() declares in its suggest_categorical calls
objective_choices ==
    [num_neurons    |-> Admit(<<16, 32, 64, 128>>, MaxChoices),
     embedding_size |-> Admit(<<8, 16, 32, 64>>, 1),
     num_heads      |-> Admit(<<2, 4, 8, 16>>, 1),
     learning_rate  |-> <<10, 1, 50, 5>>]

\* the grid handed to GridSampler
search_space ==
    [num_neurons    |-> Admit(<<16, 32, 64, 128>>, MaxChoices),
     embedding_size |-> Admit(<<8, 16, 32, 64>>, 1),
     num_heads      |-> Admit(<<2, 4, 8, 16>>, 1),
     learning_rate  |-> <<10, 5>>]

ParamNames == {"num_neurons", "embedding_size", "num_heads", "learning_rate"}

----------------------------------------------------------------------------
(* optuna GridSampler over search_space *)

\* GridSampler sorts the parameter names and takes itertools.product of the
\* value lists: embedding_size, learning_rate, num_heads, num_neurons, the
\* last one varying fastest.  Grid ids are 0-based.
n_min_trials ==
    Len(search_space.embedding_size) * Len(search_space.learning_rate)
        * Len(search_space.num_heads) * Len(search_space.num_neurons)

GridIds == 0 .. (n_min_trials - 1)

all_grids(g) ==
    LET nn == Len(search_space.num_neurons)
        nh == Len(search_space.num_heads)
        nl == Len(search_space.learning_rate)
        ne == Len(search_space.embedding_size)
    IN  [num_neurons    |-> search_space.num_neurons[(g % nn) + 1],
         num_heads      |-> search_space.num_heads[((g \div nn) % nh) + 1],
         learning_rate  |-> search_space.learning_rate[((g \div (nn * nh)) % nl) + 1],
         embedding_size |-> search_space.embedding_size[((g \div (nn * nh * nl)) % ne) + 1]]

IsFinished(state) == state \in {"COMPLETE", "FAIL"}

\* GridSampler._get_unvisited_grid_ids
get_unvisited_grid_ids(ts) ==
    LET visited == {t.grid_id : t \in {u \in BagToSet(ts) : IsFinished(u.state)}}
        running == {t.grid_id : t \in {u \in BagToSet(ts) : u.state = "RUNNING"}}
        unvisited == (GridIds \ visited) \ running
    IN  IF unvisited = {} THEN GridIds \ visited ELSE unvisited

\* GridSampler.before_trial: the grid ids the new trial may be given
before_trial_targets(ts) ==
    LET target_grids == get_unvisited_grid_ids(ts)
    IN  IF target_grids = {} THEN GridIds ELSE target_grids

\* GridSampler.after_trial: whether study.stop() is called
after_trial_stops(ts, grid_id) ==
    LET target_grids == get_unvisited_grid_ids(ts)
    IN  \/ target_grids = {}
        \/ target_grids = {grid_id}

\* GridSampler.sample_independent under trial.suggest_categorical: the grid's
\* value, which must be one of the declared choices (ValueError otherwise)
suggest_ok(grid_id) ==
    \A p \in ParamNames : all_grids(grid_id)[p] \in Range(objective_choices[p])

\* tell that records the outcome but leaves the RUNNING entry behind
tell_leaves_running(ts, grid_id, state, value) ==
    ts (+) SetToBag({[grid_id |-> grid_id, state |-> state, value |-> value]})

\* study.tell: the running trial of grid_id ends in the given state
tell(ts, grid_id, state, value) ==
    (ts (-) SetToBag({[grid_id |-> grid_id, state |-> "RUNNING", value |-> Unbound]}))
        (+) SetToBag({[grid_id |-> grid_id, state |-> state, value |-> value]})

\* study.best_trial candidates (direction = maximize)
CompleteTrials(ts) == {t \in BagToSet(ts) : t.state = "COMPLETE"}

\* the study minimising instead of maximising
best_trials_minimize(ts) ==
    {t \in CompleteTrials(ts) :
        \A u \in CompleteTrials(ts) : Val(t.value) <= Val(u.value)}

best_trials(ts) ==
    {t \in CompleteTrials(ts) :
        \A u \in CompleteTrials(ts) : Val(u.value) <= Val(t.value)}

----------------------------------------------------------------------------
(* Data preparation *)

Nodes == 0 .. (NumNodes - 1)

\* the noisy co-expression graphs: binary, symmetric, zero diagonal
AdjacencyMatrices ==
    {a \in [Nodes \X Nodes -> {0, 1}] :
        \A i \in Nodes, j \in Nodes : a[<<i, j>>] = a[<<j, i>>] /\ a[<<i, i>>] = 0}

\* np.where restricted to the upper triangle
RECURSIVE np_where_upper(_, _)
np_where_upper(a, p) ==
    IF p >= NumNodes * NumNodes THEN <<>>
    ELSE LET i == p \div NumNodes
             j == p % NumNodes
         IN  (IF a[<<i, j>>] = 1 /\ i < j THEN << <<i, j>> >> ELSE <<>>)
                 \o np_where_upper(a, p + 1)

\* np.where(adj_matrix == 1): the matching positions in row-major order
RECURSIVE np_where_eq1(_, _)
np_where_eq1(a, p) ==
    IF p >= NumNodes * NumNodes THEN <<>>
    ELSE LET i == p \div NumNodes
             j == p % NumNodes
         IN  (IF a[<<i, j>>] = 1 THEN << <<i, j>> >> ELSE <<>>) \o np_where_eq1(a, p + 1)

\* torch.tensor(np.array(np.where(...))): a 2 x E tensor, row of sources and
\* row of targets
make_edge_index(a) ==
    LET w == np_where_eq1(a, 0)
    IN  << [k \in 1..Len(w) |-> w[k][1]], [k \in 1..Len(w) |-> w[k][2]] >>

----------------------------------------------------------------------------
(* Model, trainer and evaluator calls *)

\* one model object shared by every run
GAT_VGAE_shared(id, kwargs) == [id |-> 0, kwargs |-> kwargs, steps |-> 0]

\* GAT_VGAE(...): a new model object with newly initialised parameters;
\* steps counts the optimizer updates applied to its parameters
GAT_VGAE(id, kwargs) == [id |-> id, kwargs |-> kwargs, steps |-> 0]

\* torch.optim.Adam(model.parameters(), lr): a new optimizer bound to the model
Adam(model, lr) == [model_id |-> model.id, lr |-> lr, steps |-> 0]

\* one optimizer step of the trainer: parameters and moments are updated
optimizer_step(o) == [o EXCEPT !.steps = @ + 1]
parameter_update(m) == [m EXCEPT !.steps = @ + 1]

\* k of the early precision rate, floor(kFraction * numGroundTruthEdges)
epr_k(k_fraction, num_gt_edges) == (k_fraction * num_gt_edges) \div 100

\* calculate_early_precision_rate(reconstructed, true_adj): called without a
\* k fraction, so the callee's own default applies
calculate_early_precision_rate(num_gt_edges) == epr_k(DefaultKFraction, num_gt_edges)

----------------------------------------------------------------------------
(* Inputs *)

\* ROC-AUC values a run may return, in tenths
RocValues == {3, 7}

\* the configuration either leaves dropout and k_fraction to their defaults
\* or sets both to 0.5
ConfigExtras == {<<DefaultDropout, DefaultKFraction>>, <<50, 50>>}

\* number of edges of the reference network that NETWORK_FILE holds
GroundTruthEdgeCounts == {0, 10}

\* the four hyperparameters of config.json; the search ignores them, so the
\* tuning configurations carry one value each
HyperParams ==
    [num_neurons    : Range(objective_choices.num_neurons),
     embedding_size : Range(objective_choices.embedding_size),
     num_heads      : Range(objective_choices.num_heads),
     learning_rate  : {10, 1}]

TuningHyperParams ==
    {hp \in HyperParams : hp.num_neurons = 16 /\ hp.learning_rate = 10}

Configs ==
    {[tune_hyperparameters |-> t, hp |-> hp, num_epochs |-> e,
      dropout |-> x[1], k_fraction |-> x[2], num_gt_edges |-> g] :
        t \in BOOLEAN, hp \in HyperParams, e \in 1..MaxEpochs,
        x \in ConfigExtras, g \in GroundTruthEdgeCounts}

InitialConfigs ==
    {c \in Configs : c.tune_hyperparameters => c.hp \in TuningHyperParams}

\* the local names of objective() / of the main block, none bound yet
NewFrame(run, number, grid_id) ==
    [run |-> run, number |-> number, grid_id |-> grid_id, hp |-> Unbound,
     data_run |-> Unbound, adj_matrix |-> Unbound, edge_index |-> Unbound,
     on_device |-> {},
     model |-> Unbound, optimizer |-> Unbound,
     train_call |-> Unbound, epoch |-> 0,
     eval_model |-> Unbound, metrics |-> Unbound, epr_k |-> Unbound]

NoFrame == NewFrame("none", -1, -1)

NoCalls == [train_and_evaluate |-> 0, evaluate_model |-> 0, log_run_info |-> 0]

\* the configurations that leave dropout and k_fraction to their defaults;
\* neither value takes part in the control flow
DefaultConfigs ==
    {c \in InitialConfigs :
        /\ c.dropout = DefaultDropout
        /\ c.k_fraction = DefaultKFraction
        /\ c.num_gt_edges > 0}

InitOf(configs) ==
    /\ config \in configs
    /\ pc = "main"
    /\ stop_flag = FALSE
    /\ trials = EmptyBag
    /\ best_params = Unbound
    /\ frame = NoFrame
    /\ run_info = EmptyBag
    /\ epoch_info = 0
    /\ models_created = 0
    /\ calls = [objective |-> NoCalls, final |-> NoCalls]
    /\ pipeline_calls = {}

Init == InitOf(InitialConfigs)

FairInit == InitOf(DefaultConfigs)

----------------------------------------------------------------------------
(* Main block: mode selection and the study *)

\* if TUNE_HYPERPARAMETERS: create the sampler and the study, enter optimize
StartTuning ==
    /\ pc = "main"
    /\ config.tune_hyperparameters
    /\ pc' = "optimize"
    /\ UNCHANGED <<config, stop_flag, trials, best_params, frame, run_info,
                   epoch_info, models_created, calls, pipeline_calls>>

\* else: best_params are the four values of the configuration
StartFixed ==
    /\ pc = "main"
    /\ ~config.tune_hyperparameters
    /\ best_params' = Bound(config.hp)
    /\ frame' = NewFrame("final", -1, -1)
    /\ pc' = "f_prep"
    /\ UNCHANGED <<config, stop_flag, trials, run_info, epoch_info,
                   models_created, calls, pipeline_calls>>

\* study.optimize: one more iteration; study.ask creates a RUNNING trial whose
\* grid id the sampler picks among the target grids, and objective is called
Ask ==
    /\ pc = "optimize"
    /\ ~stop_flag
    /\ BagCardinality(trials) < n_trials
    /\ \E g \in before_trial_targets(trials) :
          /\ trials' = trials (+) SetToBag({[grid_id |-> g, state |-> "RUNNING",
                                             value |-> Unbound]})
          /\ frame' = NewFrame("objective", BagCardinality(trials), g)
    /\ pc' = "t_suggest"
    /\ UNCHANGED <<config, stop_flag, best_params, run_info, epoch_info,
                   models_created, calls, pipeline_calls>>

\* study.optimize returns: the study was stopped or n_trials were run
OptimizeReturn ==
    /\ pc = "optimize"
    /\ (stop_flag \/ BagCardinality(trials) >= n_trials)
    /\ pc' = "best"
    /\ UNCHANGED <<config, stop_flag, trials, best_params, frame, run_info,
                   epoch_info, models_created, calls, pipeline_calls>>

\* best_params = study.best_trial.params
SelectBest ==
    /\ pc = "best"
    /\ \E t \in best_trials(trials) : best_params' = Bound(all_grids(t.grid_id))
    /\ frame' = NewFrame("final", -1, -1)
    /\ pc' = "f_prep"
    /\ UNCHANGED <<config, stop_flag, trials, run_info, epoch_info,
                   models_created, calls, pipeline_calls>>

----------------------------------------------------------------------------
(* objective(trial) *)

\* optimize catching the exception and going on with the next trial
ObjectiveRaises_caught ==
    /\ trials' = tell(trials, frame.grid_id, "FAIL", Unbound)
    /\ stop_flag' = (stop_flag \/ after_trial_stops(trials, frame.grid_id))
    /\ frame' = NoFrame
    /\ pc' = "optimize"
    /\ UNCHANGED <<config, best_params, run_info, epoch_info, models_created,
                   calls, pipeline_calls>>

\* an exception leaves objective: optuna records the trial as FAIL, runs the
\* sampler's after_trial and re-raises (catch is empty); nothing catches it
ObjectiveRaises ==
    /\ trials' = tell(trials, frame.grid_id, "FAIL", Unbound)
    /\ stop_flag' = (stop_flag \/ after_trial_stops(trials, frame.grid_id))
    /\ frame' = NoFrame
    /\ pc' = "aborted"
    /\ UNCHANGED <<config, best_params, run_info, epoch_info, models_created,
                   calls, pipeline_calls>>

\* the four trial.suggest_categorical calls
Suggest ==
    /\ pc = "t_suggest"
    /\ IF suggest_ok(frame.grid_id)
       THEN /\ frame' = [frame EXCEPT !.hp = Bound(all_grids(frame.grid_id))]
            /\ pc' = "t_prep"
            /\ UNCHANGED <<config, stop_flag, trials, best_params, run_info,
                           epoch_info, models_created, calls, pipeline_calls>>
       ELSE ObjectiveRaises

\* preprocess_data .. create_true_adjacency_matrix: everything is read and
\* computed anew; the noise makes the adjacency matrix any admissible one
PrepareData(f) ==
    {[f EXCEPT !.data_run = Bound(<<f.run, f.number>>),
               !.adj_matrix = Bound(a),
               !.edge_index = Bound(make_edge_index(a))] : a \in AdjacencyMatrices}

ObjectivePrepare ==
    /\ pc = "t_prep"
    /\ frame' \in PrepareData(frame)
    /\ pc' = "t_device"
    /\ UNCHANGED <<config, stop_flag, trials, best_params, run_info, epoch_info,
                   models_created, calls, pipeline_calls>>

ObjectiveToDevice ==
    /\ pc = "t_device"
    /\ frame' = [frame EXCEPT !.on_device =
                    {"edge_index", "expr_tensor", "adj_matrix_tensor"}]
    /\ pc' = "t_model"
    /\ UNCHANGED <<config, stop_flag, trials, best_params, run_info, epoch_info,
                   models_created, calls, pipeline_calls>>

ObjectiveModelKwargs(hp) ==
    [num_features |-> "expr_data.shape[1]", num_neurons |-> hp.num_neurons,
     embedding_size |-> hp.embedding_size, num_heads |-> hp.num_heads,
     num_nodes |-> NumNodes, dropout |-> Unbound]

ObjectiveModel ==
    /\ pc = "t_model"
    /\ LET model == GAT_VGAE(models_created, ObjectiveModelKwargs(Val(frame.hp)))
       IN  frame' = [frame EXCEPT !.model = Bound(model),
                                  !.optimizer = Bound(Adam(model, Val(frame.hp).learning_rate))]
    /\ models_created' = models_created + 1
    /\ pc' = "t_train"
    /\ UNCHANGED <<config, stop_flag, trials, best_params, run_info, epoch_info,
                   calls, pipeline_calls>>

\* train_and_evaluate given a fixed epoch count instead of NUM_EPOCHS
TrainArgs_fixed_epochs(f, hp) ==
    [model_id |-> Val(f.model).id, edge_index |-> Val(f.edge_index),
     adj_target |-> Val(f.adj_matrix),
     num_epochs |-> 1, optimizer_model |-> Val(f.optimizer).model_id,
     num_neurons |-> hp.num_neurons, embedding_size |-> hp.embedding_size,
     lr |-> hp.learning_rate, heads |-> hp.num_heads]

\* the arguments of train_and_evaluate, the tensors by the names they carry
TrainArgs(f, hp) ==
    [model_id |-> Val(f.model).id, edge_index |-> Val(f.edge_index),
     adj_target |-> Val(f.adj_matrix),
     num_epochs |-> config.num_epochs, optimizer_model |-> Val(f.optimizer).model_id,
     num_neurons |-> hp.num_neurons, embedding_size |-> hp.embedding_size,
     lr |-> hp.learning_rate, heads |-> hp.num_heads]

\* what a path feeds into the core pipeline for a hyperparameter set
PipelineCall(path, f, hp) ==
    [path |-> path, hp |-> hp, model_kwargs |-> Val(f.model).kwargs,
     on_device |-> f.on_device,
     train_labels |-> [num_epochs |-> Val(f.train_call).num_epochs,
                       num_neurons |-> Val(f.train_call).num_neurons,
                       embedding_size |-> Val(f.train_call).embedding_size,
                       lr |-> Val(f.train_call).lr,
                       heads |-> Val(f.train_call).heads]]

ObjectiveTrainCall ==
    /\ pc = "t_train"
    /\ frame' = [frame EXCEPT !.train_call = Bound(TrainArgs(frame, Val(frame.hp))),
                              !.epoch = 0]
    /\ calls' = [calls EXCEPT !.objective.train_and_evaluate = @ + 1]
    /\ pipeline_calls' = pipeline_calls \cup {PipelineCall("objective", frame', Val(frame.hp))}
    /\ pc' = "t_epochs"
    /\ UNCHANGED <<config, stop_flag, trials, best_params, run_info, epoch_info,
                   models_created>>

\* one epoch of train_and_evaluate: forward, loss, backward, optimizer step,
\* one EpochRecord
TrainEpoch(f) ==
    [f EXCEPT !.model = Bound(parameter_update(Val(f.model))),
              !.optimizer = Bound(optimizer_step(Val(f.optimizer))),
              !.epoch = @ + 1]

ObjectiveTrainEpoch ==
    /\ pc = "t_epochs"
    /\ frame.epoch < Val(frame.train_call).num_epochs
    /\ frame' = TrainEpoch(frame)
    /\ epoch_info' = epoch_info + 1
    /\ UNCHANGED <<config, pc, stop_flag, trials, best_params, run_info,
                   models_created, calls, pipeline_calls>>

ObjectiveTrainReturn ==
    /\ pc = "t_epochs"
    /\ frame.epoch >= Val(frame.train_call).num_epochs
    /\ pc' = "t_eval"
    /\ UNCHANGED <<config, stop_flag, trials, best_params, frame, run_info,
                   epoch_info, models_created, calls, pipeline_calls>>

\* model(edge_index, expr_tensor) and evaluate_model: the metrics of the
\* reconstruction the current model produces
Evaluate(f) ==
    {[f EXCEPT !.eval_model = Bound(Val(f.model).id),
               !.metrics = Bound([roc_auc |-> r, num_gt_edges |-> config.num_gt_edges])] :
        r \in RocValues}

ObjectiveEvaluate ==
    /\ pc = "t_eval"
    /\ frame' \in Evaluate(frame)
    /\ calls' = [calls EXCEPT !.objective.evaluate_model = @ + 1]
    /\ pc' = "t_log"
    /\ UNCHANGED <<config, stop_flag, trials, best_params, run_info, epoch_info,
                   models_created, pipeline_calls>>

RunRecord(f) ==
    [run_id |-> "run_id", hp |-> Val(f.hp), metrics |-> Val(f.metrics),
     dataset |-> "DATASET"]

ObjectiveLog ==
    /\ pc = "t_log"
    /\ run_info' = run_info (+) SetToBag({RunRecord(frame)})
    /\ calls' = [calls EXCEPT !.objective.log_run_info = @ + 1]
    /\ pc' = "t_return"
    /\ UNCHANGED <<config, stop_flag, trials, best_params, frame, epoch_info,
                   models_created, pipeline_calls>>

\* return roc_auc_eval: the trial is COMPLETE with that value, the sampler's
\* after_trial may stop the study, and the loop of optimize goes on
ObjectiveReturn ==
    /\ pc = "t_return"
    /\ trials' = tell(trials, frame.grid_id, "COMPLETE",
                      Bound(Val(frame.metrics).roc_auc))
    /\ stop_flag' = (stop_flag \/ after_trial_stops(trials, frame.grid_id))
    /\ frame' = NoFrame
    /\ pc' = "optimize"
    /\ UNCHANGED <<config, best_params, run_info, epoch_info, models_created,
                   calls, pipeline_calls>>

\* data preparation, model construction, training or evaluation raises
ObjectiveError ==
    /\ pc \in {"t_prep", "t_device", "t_model", "t_train", "t_epochs", "t_eval"}
    /\ ObjectiveRaises

----------------------------------------------------------------------------
(* Main block: the final run with best_params *)

FinalPrepare ==
    /\ pc = "f_prep"
    /\ frame' \in PrepareData([frame EXCEPT !.hp = best_params])
    /\ pc' = "f_device"
    /\ UNCHANGED <<config, stop_flag, trials, best_params, run_info, epoch_info,
                   models_created, calls, pipeline_calls>>

FinalToDevice ==
    /\ pc = "f_device"
    /\ frame' = [frame EXCEPT !.on_device = {"edge_index", "expr_tensor"}]
    /\ pc' = "f_model"
    /\ UNCHANGED <<config, stop_flag, trials, best_params, run_info, epoch_info,
                   models_created, calls, pipeline_calls>>

FinalModelKwargs(hp) ==
    [num_features |-> "expr_data.shape[1]", num_neurons |-> hp.num_neurons,
     embedding_size |-> hp.embedding_size, num_heads |-> hp.num_heads,
     num_nodes |-> NumNodes, dropout |-> Bound(config.dropout)]

FinalModel ==
    /\ pc = "f_model"
    /\ LET model == GAT_VGAE(models_created, FinalModelKwargs(Val(best_params)))
       IN  frame' = [frame EXCEPT !.model = Bound(model),
                                  !.optimizer = Bound(Adam(model, Val(best_params).learning_rate))]
    /\ models_created' = models_created + 1
    /\ pc' = "f_train"
    /\ UNCHANGED <<config, stop_flag, trials, best_params, run_info, epoch_info,
                   calls, pipeline_calls>>

FinalTrainCall ==
    /\ pc = "f_train"
    /\ frame' = [frame EXCEPT !.train_call = Bound(TrainArgs(frame, Val(best_params))),
                              !.epoch = 0]
    /\ calls' = [calls EXCEPT !.final.train_and_evaluate = @ + 1]
    /\ pipeline_calls' = pipeline_calls \cup {PipelineCall("final", frame', Val(best_params))}
    /\ pc' = "f_epochs"
    /\ UNCHANGED <<config, stop_flag, trials, best_params, run_info, epoch_info,
                   models_created>>

FinalTrainEpoch ==
    /\ pc = "f_epochs"
    /\ frame.epoch < Val(frame.train_call).num_epochs
    /\ frame' = TrainEpoch(frame)
    /\ epoch_info' = epoch_info + 1
    /\ UNCHANGED <<config, pc, stop_flag, trials, best_params, run_info,
                   models_created, calls, pipeline_calls>>

FinalTrainReturn ==
    /\ pc = "f_epochs"
    /\ frame.epoch >= Val(frame.train_call).num_epochs
    /\ pc' = "f_eval"
    /\ UNCHANGED <<config, stop_flag, trials, best_params, frame, run_info,
                   epoch_info, models_created, calls, pipeline_calls>>

\* reconstructed_adjacency, evaluate_model and the accuracy at 0.5
FinalEvaluate ==
    /\ pc = "f_eval"
    /\ frame' \in Evaluate(frame)
    /\ calls' = [calls EXCEPT !.final.evaluate_model = @ + 1]
    /\ pc' = "f_epr"
    /\ UNCHANGED <<config, stop_flag, trials, best_params, run_info, epoch_info,
                   models_created, pipeline_calls>>

\* epr_final = calculate_early_precision_rate(reconstructed_adjacency,
\* true_adj_matrix) and the report of the final metrics
FinalEPR ==
    /\ pc = "f_epr"
    /\ frame' = [frame EXCEPT !.epr_k =
                    Bound(calculate_early_precision_rate(Val(frame.metrics).num_gt_edges))]
    /\ pc' = "f_overlap"
    /\ UNCHANGED <<config, stop_flag, trials, best_params, run_info, epoch_info,
                   models_created, calls, pipeline_calls>>

\* construct_adjacency_matrix, calculate_whole_network_overlap, and the end of
\* the script
FinalOverlap ==
    /\ pc = "f_overlap"
    /\ pc' = "done"
    /\ UNCHANGED <<config, stop_flag, trials, best_params, frame, run_info,
                   epoch_info, models_created, calls, pipeline_calls>>

\* a step of the final run raises: the script ends with the traceback
FinalError ==
    /\ pc \in {"f_prep", "f_device", "f_model", "f_train", "f_epochs", "f_eval",
               "f_epr", "f_overlap"}
    /\ frame' = NoFrame
    /\ pc' = "aborted"
    /\ UNCHANGED <<config, stop_flag, trials, best_params, run_info, epoch_info,
                   models_created, calls, pipeline_calls>>

----------------------------------------------------------------------------
(* Specifications *)

Steps ==
    \/ StartTuning \/ StartFixed \/ Ask \/ OptimizeReturn \/ SelectBest
    \/ Suggest \/ ObjectivePrepare \/ ObjectiveToDevice \/ ObjectiveModel
    \/ ObjectiveTrainCall \/ ObjectiveTrainEpoch \/ ObjectiveTrainReturn
    \/ ObjectiveEvaluate \/ ObjectiveLog \/ ObjectiveReturn
    \/ FinalPrepare \/ FinalToDevice \/ FinalModel \/ FinalTrainCall
    \/ FinalTrainEpoch \/ FinalTrainReturn \/ FinalEvaluate \/ FinalEPR
    \/ FinalOverlap

Errors == ObjectiveError \/ FinalError

Next == Steps \/ Errors

Spec == Init /\ [][Next]_vars

\* the script runs on without outside scheduling: a step that can be taken
\* is taken; whether an error is raised is up to the inputs
FairSpec == FairInit /\ [][Next]_vars /\ WF_vars(Steps)

----------------------------------------------------------------------------
(* Properties *)

TrialCount(state) ==
    BagCardinality([t \in {u \in BagToSet(trials) : u.state = state} |-> trials[t]])

TrialsOfGrid(g) ==
    BagCardinality([t \in {u \in BagToSet(trials) : u.grid_id = g} |-> trials[t]])

\* the hyperparameters a frame's model and optimizer were built with
UsedHP(f) ==
    [num_neurons    |-> Val(f.model).kwargs.num_neurons,
     embedding_size |-> Val(f.model).kwargs.embedding_size,
     num_heads      |-> Val(f.model).kwargs.num_heads,
     learning_rate  |-> Val(f.optimizer).lr]

\* C1: when the search has ended without a raise, every grid combination was
\* evaluated by exactly one trial and every value objective() declares as a
\* choice was tried by some trial.
C1_ExhaustiveOverDeclaredChoices ==
    pc = "best" =>
        /\ \A g \in GridIds : TrialsOfGrid(g) = 1
        /\ \A p \in ParamNames : \A v \in Range(objective_choices[p]) :
               \E t \in BagToSet(trials) : all_grids(t.grid_id)[p] = v

\* C2: the hyperparameters of the final model are, in tuning mode, those of a
\* completed trial whose ROC-AUC no other completed trial exceeds, and in
\* fixed mode the four values of the configuration.
C2_FinalUsesBestParams ==
    (frame.run = "final" /\ frame.model # Unbound) =>
        /\ IF config.tune_hyperparameters
           THEN \E t \in CompleteTrials(trials) :
                    /\ all_grids(t.grid_id) = UsedHP(frame)
                    /\ \A u \in CompleteTrials(trials) : Val(u.value) <= Val(t.value)
           ELSE UsedHP(frame) = config.hp
        /\ frame.train_call # Unbound =>
               /\ Val(frame.train_call).num_neurons = UsedHP(frame).num_neurons
               /\ Val(frame.train_call).embedding_size = UsedHP(frame).embedding_size
               /\ Val(frame.train_call).heads = UsedHP(frame).num_heads
               /\ Val(frame.train_call).lr = UsedHP(frame).learning_rate

C2_Witness ==
    /\ config.tune_hyperparameters
    /\ pc = "f_epochs"
    /\ \E t \in CompleteTrials(trials), u \in CompleteTrials(trials) :
          Val(t.value) < Val(u.value)

\* C3: once a step of a trial has raised, the trial is the only failed one,
\* nothing is running, no RunRecord was written for it, the final run was
\* never entered, and nothing happens any more.
C3_AfterRaise ==
    TrialCount("FAIL") > 0 =>
        /\ pc = "aborted"
        /\ TrialCount("FAIL") = 1
        /\ TrialCount("RUNNING") = 0
        /\ \A g \in GridIds : TrialsOfGrid(g) <= 1
        /\ BagCardinality(run_info) = TrialCount("COMPLETE")
        /\ calls.objective.log_run_info = TrialCount("COMPLETE")
        /\ best_params = Unbound
        /\ calls.final = NoCalls
        /\ frame = NoFrame

C3_ErrorAbortsSearch ==
    /\ []C3_AfterRaise
    /\ [][(pc \in {"t_prep", "t_device", "t_model", "t_train", "t_epochs", "t_eval"}
              /\ pc' = "aborted")
            => (TrialCount("FAIL") = 0 /\ (TrialCount("FAIL") = 1)')]_vars
    /\ [][pc = "aborted" => UNCHANGED vars]_vars

C3_Witness ==
    /\ pc = "aborted"
    /\ TrialCount("FAIL") = 1
    /\ TrialCount("COMPLETE") > 0
    /\ get_unvisited_grid_ids(trials) # {}

\* C4: every execution of the pipeline, the final run included, has appended
\* exactly one RunRecord by the time the program ends.
C4_OneRunRecordPerRun ==
    pc = "done" =>
        BagCardinality(run_info)
            = calls.objective.train_and_evaluate + calls.final.train_and_evaluate

\* C5: the program terminates; the search stops when the grid is exhausted,
\* before n_trials; then one final training of NUM_EPOCHS epochs and one
\* final evaluation run; every training call is given NUM_EPOCHS.
C5_AtEnd ==
    pc = "done" =>
        /\ calls.final.train_and_evaluate = 1
        /\ calls.final.evaluate_model = 1
        /\ frame.epoch = config.num_epochs
        /\ Val(frame.model).steps = config.num_epochs
        /\ config.tune_hyperparameters =>
               /\ BagCardinality(trials) = n_min_trials
               /\ BagCardinality(trials) < n_trials
               /\ epoch_info = (n_min_trials + 1) * config.num_epochs

C5_SameEpochs ==
    /\ \A c \in pipeline_calls : c.train_labels.num_epochs = config.num_epochs
    /\ frame.train_call # Unbound =>
           /\ Val(frame.train_call).num_epochs = config.num_epochs
           /\ frame.epoch <= config.num_epochs
    /\ pc \in {"t_eval", "t_log", "t_return", "f_eval", "f_epr", "f_overlap"} =>
           Val(frame.model).steps = config.num_epochs

C5_Terminates ==
    /\ <>(pc \in {"done", "aborted"})
    /\ []C5_AtEnd
    /\ []C5_SameEpochs

C5_Witness ==
    /\ pc = "done"
    /\ config.tune_hyperparameters
    /\ config.num_epochs > 1
    /\ BagCardinality(trials) = n_min_trials

\* C6: at most one trial or the final run is active; a trial starts only when
\* no trial is running; a model's parameters change only in an epoch of the
\* train_and_evaluate call that was given that model.
C6_OneActive ==
    /\ TrialCount("RUNNING") + (IF frame.run = "final" THEN 1 ELSE 0) <= 1
    /\ TrialCount("RUNNING") = 1 <=> frame.run = "objective"
    /\ \A t \in BagToSet(trials) : t.state = "RUNNING" => t.grid_id = frame.grid_id

C6_Step ==
    /\ BagCardinality(trials') > BagCardinality(trials) => TrialCount("RUNNING") = 0
    /\ (/\ frame.model # Unbound
        /\ frame'.model # Unbound
        /\ Val(frame'.model).steps # Val(frame.model).steps)
       => /\ pc \in {"t_epochs", "f_epochs"}
          /\ pc' = pc
          /\ frame'.run = frame.run /\ frame'.number = frame.number
          /\ Val(frame'.model).id = Val(frame.model).id
          /\ Val(frame.train_call).model_id = Val(frame.model).id
          /\ Val(frame'.model).steps = Val(frame.model).steps + 1

C6_Sequential == []C6_OneActive /\ [][C6_Step]_vars

C6_Witness ==
    /\ pc = "t_epochs"
    /\ frame.epoch > 0
    /\ TrialCount("COMPLETE") > 0
    /\ TrialCount("RUNNING") = 1

\* C7: for the same hyperparameters the search path and the final path build
\* the model with the same arguments, put the same tensors on the device and
\* give train_and_evaluate the same arguments.
C7_PathsFeedIdentically ==
    \A c \in pipeline_calls : \A d \in pipeline_calls :
        (c.path = "objective" /\ d.path = "final" /\ c.hp = d.hp) =>
            /\ c.model_kwargs = d.model_kwargs
            /\ c.model_kwargs.dropout = Bound(config.dropout)
            /\ c.on_device = d.on_device
            /\ c.train_labels = d.train_labels

\* C8: the data a run works on was computed in that run, and its edge index
\* is exactly the row-major sequence of the nonzero positions of that run's
\* adjacency matrix, also as handed to the trainer.
C8_EdgeIndexOfOwnAdjacency ==
    frame.edge_index # Unbound =>
        LET a  == Val(frame.adj_matrix)
            ei == Val(frame.edge_index)
            nz == {ij \in Nodes \X Nodes : a[ij] # 0}
        IN  /\ frame.data_run = Bound(<<frame.run, frame.number>>)
            /\ Len(ei[1]) = Cardinality(nz)
            /\ Len(ei[2]) = Cardinality(nz)
            /\ {<<ei[1][k], ei[2][k]>> : k \in 1..Len(ei[1])} = nz
            /\ \A k \in 1..(Len(ei[1]) - 1) :
                   ei[1][k] * NumNodes + ei[2][k] < ei[1][k + 1] * NumNodes + ei[2][k + 1]
            /\ frame.train_call # Unbound =>
                   /\ Val(frame.train_call).edge_index = ei
                   /\ Val(frame.train_call).adj_target = a

C8_Witness ==
    /\ frame.run = "final"
    /\ config.tune_hyperparameters
    /\ frame.train_call # Unbound
    /\ Len(Val(frame.edge_index)[1]) > 0

\* C9: the k of the early precision rate the final run reports is
\* floor(k_fraction * numGroundTruthEdges) for the configured k_fraction.
C9_KFromConfiguredFraction ==
    frame.epr_k # Unbound =>
        Val(frame.epr_k) = epr_k(config.k_fraction, config.num_gt_edges)

\* C10: every run trains a model and an optimizer of its own, created in that
\* run with no update applied yet; the final metrics come from the model the
\* final run built and trained from scratch with the best hyperparameters.
C10_FreshModelPerRun ==
    frame.model # Unbound =>
        /\ Val(frame.model).id = models_created - 1
        /\ frame.run = "objective" => Val(frame.model).id = frame.number
        /\ (frame.run = "final" /\ config.tune_hyperparameters) =>
               /\ Val(frame.model).id = n_min_trials
               /\ UsedHP(frame) = Val(best_params)
        /\ Val(frame.model).steps = frame.epoch
        /\ Val(frame.optimizer).model_id = Val(frame.model).id
        /\ Val(frame.optimizer).steps = frame.epoch
        /\ frame.eval_model # Unbound =>
               /\ Val(frame.eval_model) = Val(frame.model).id
               /\ Val(frame.model).steps = config.num_epochs

C10_Witness ==
    /\ pc = "f_epr"
    /\ config.tune_hyperparameters
    /\ frame.eval_model # Unbound
    /\ Val(frame.model).steps = config.num_epochs
    /\ models_created = n_min_trials + 1

====
